---- MODULE Spec2Model ----
(***************************************************************************)
(* Model of the crawl engine of Tor-Enabled-Web-Crawler.py: the URL        *)
(* normaliser (normalize_url, get_domain), the storage name (save_html),   *)
(* link extraction and admission, and the traversal loop of crawl().       *)
(*                                                                         *)
(* Strings are modelled as sequences of one-character strings so that      *)
(* parsing, lower-casing, suffix and substring tests are computed the way  *)
(* the code computes them.  urldefrag/urlparse follow CPython 3.11's       *)
(* urllib.parse on the characters used here (no ';', '[', ']', blanks or   *)
(* control characters occur, so params are always empty and no ValueError  *)
(* is raised).                                                             *)
(***************************************************************************)
EXTENDS Integers, Sequences, FiniteSets, TLC

VARIABLES
    pc,             \* position of crawl(): start, loop, robots, fetch, save, links, log, mark, sleep, done, crashed
    start_url,      \* the start_url argument; rebound to its normal form at line 158
    depth,          \* the depth argument (max depth)
    respect_robots, \* the respect_robots argument
    max_pages,      \* the max_pages argument (page budget)
    log_exists,     \* os.path.exists(log_path)
    logfile,        \* the lines of crawl_log.csv, oldest first
    log0,           \* history: number of lines of crawl_log.csv that this run did not append
    visited,        \* visited (set of URLs)
    queue,          \* queue (deque of <<url, level>>)
    processed,      \* processed
    pbar,           \* pbar.n, the progress bar's count
    url,            \* url of the target popped last
    level,          \* level of the target popped last
    resp,           \* the response of session.get: status and Content-Type
    saved_file,     \* saved_file of the current iteration
    links,          \* links, the set extract_links returned last
    outcome,        \* how the current iteration logged its target: none, blocked, fetched, error
    gets,           \* history: the URLs session.get was called with, in order
    saved,          \* history: the URLs whose body save_html has written
    sleeps,         \* history: number of time.sleep(delay) calls
    levels,         \* history: the level of the target of each line appended by this run
    admitted,       \* history: <<url, level, source url>> for every entry ever put in queue
    nin,            \* normaliser run: the raw input
    nout,           \* normaliser run: the results of the successive applications
    npc             \* normaliser run: idle or run

vars == <<pc, start_url, depth, respect_robots, max_pages, log_exists, logfile,
          log0, visited, queue, processed, pbar, url, level, resp, saved_file,
          links, outcome, gets, saved, sleeps, levels, admitted, nin, nout, npc>>

crawlVars == <<pc, start_url, depth, respect_robots, max_pages, log_exists, logfile,
          log0, visited, queue, processed, pbar, url, level, resp, saved_file,
          links, outcome, gets, saved, sleeps, levels, admitted>>

normVars == <<nin, nout, npc>>

---------------------------------------------------------------------------
(* Bounds *)

MaxRawLen == 4
MaxDepth == 2
MaxPages == 3
MaxLinks == 2

---------------------------------------------------------------------------
(* Characters and strings *)

UpperChars == {"H", "T", "M", "L", "P", "X", "Z"}

LowerOf == [c \in UpperChars |->
              CASE c = "H" -> "h" [] c = "T" -> "t" [] c = "M" -> "m"
                [] c = "L" -> "l" [] c = "P" -> "p" [] c = "X" -> "x"
                [] c = "Z" -> "z"]

LowerChars == {"a", "b", "c", "d", "e", "f", "h", "i", "l", "m", "n", "o",
               "p", "s", "t", "u", "w", "x", "y", "z"}

IsAlpha(c) == c \in LowerChars \cup UpperChars

\* scheme_chars of urllib.parse: letters, digits and "+-."
IsSchemeChar(c) == IsAlpha(c) \/ c \in {"+", "-", "."}

LowerChar(c) == IF c \in UpperChars THEN LowerOf[c] ELSE c

\* str.lower()
Lower(s) == [i \in 1..Len(s) |-> LowerChar(s[i])]

\* c in s
Has(s, c) == \E i \in 1..Len(s) : s[i] = c

\* s.find(c, start) with positions counted from 1; 0 when c does not occur
Find(s, c, start) ==
    IF \E i \in start..Len(s) : s[i] = c
    THEN CHOOSE i \in start..Len(s) : s[i] = c /\ \A j \in start..(i-1) : s[j] # c
    ELSE 0

\* s[:n]
Take(s, n) == SubSeq(s, 1, IF n < Len(s) THEN n ELSE Len(s))

\* s[n:] with n counted from 1
Drop(s, n) == SubSeq(s, n, Len(s))

\* s.endswith(suf)
EndsWith(s, suf) ==
    /\ Len(suf) <= Len(s)
    /\ SubSeq(s, Len(s) - Len(suf) + 1, Len(s)) = suf

\* sub in s
Contains(s, sub) ==
    \E i \in 0..(Len(s) - Len(sub)) : SubSeq(s, i + 1, i + Len(sub)) = sub

\* s.replace(a, b) for single characters
Replace(s, a, b) == [i \in 1..Len(s) |-> IF s[i] = a THEN b ELSE s[i]]

HTTP == <<"h", "t", "t", "p">>
HTTPS == <<"h", "t", "t", "p", "s">>
FTP == <<"f", "t", "p">>
SEP == <<":", "/", "/">>

\* the members of urllib.parse.uses_netloc that can occur here
UsesNetloc == {HTTP, HTTPS, FTP}

---------------------------------------------------------------------------
(* urllib.parse as called by normalize_url, get_domain, save_html *)

Min(a, b) == IF a < b THEN a ELSE b

\* F applied to the value of x: x is evaluated once, as an assignment
\* statement does, however often F's body uses it
Let(x, F(_)) == CHOOSE r \in {F(v) : v \in {x}} : TRUE

\* _splitnetloc(url, 2): the position of the first of "/?#" after the "//"
NetlocEnd(u) ==
    LET pos(c) == Let(Find(u, c, 3), LAMBDA k : IF k = 0 THEN Len(u) + 1 ELSE k)
    IN Min(pos("/"), Min(pos("?"), pos("#")))

\* urlsplit after the scheme: netloc, then fragment, then query
SplitRest(scheme, u1) ==
    Let(Len(u1) >= 2 /\ u1[1] = "/" /\ u1[2] = "/", LAMBDA hasNet :
    Let(IF hasNet THEN NetlocEnd(u1) ELSE 1, LAMBDA delim :
    Let(IF hasNet THEN Drop(u1, delim) ELSE u1, LAMBDA u2 :
    Let(Find(u2, "#", 1), LAMBDA h :
    Let(IF h > 0 THEN SubSeq(u2, 1, h-1) ELSE u2, LAMBDA u3 :
    Let(Find(u3, "?", 1), LAMBDA q :
        [scheme |-> scheme,
         netloc |-> IF hasNet THEN SubSeq(u1, 3, delim - 1) ELSE <<>>,
         path |-> IF q > 0 THEN SubSeq(u3, 1, q-1) ELSE u3,
         query |-> IF q > 0 THEN Drop(u3, q+1) ELSE <<>>,
         fragment |-> IF h > 0 THEN Drop(u2, h+1) ELSE <<>>]))))))

urlparse(u) ==
    Let(Find(u, ":", 1), LAMBDA i :
    Let(/\ i > 1
        /\ IsAlpha(u[1])
        /\ \A k \in 1..(i-1) : IsSchemeChar(u[k]), LAMBDA hasScheme :
        IF hasScheme
        THEN SplitRest(Lower(SubSeq(u, 1, i-1)), Drop(u, i+1))
        ELSE SplitRest(<<>>, u)))

urlunparse(p) ==
    Let(\/ p.netloc # <<>>
        \/ /\ p.scheme # <<>>
           /\ p.scheme \in UsesNetloc
           /\ Take(p.path, 2) # <<"/", "/">>, LAMBDA withNet :
    Let(IF withNet /\ p.path # <<>> /\ p.path[1] # "/"
        THEN <<"/">> \o p.path ELSE p.path, LAMBDA path1 :
    Let(IF withNet THEN <<"/", "/">> \o p.netloc \o path1 ELSE p.path, LAMBDA u1 :
    Let(IF p.scheme # <<>> THEN p.scheme \o <<":">> \o u1 ELSE u1, LAMBDA u2 :
    Let(IF p.query # <<>> THEN u2 \o <<"?">> \o p.query ELSE u2, LAMBDA u3 :
        IF p.fragment # <<>> THEN u3 \o <<"#">> \o p.fragment ELSE u3)))))

\* urldefrag(url)[0]
urldefrag(u) ==
    IF Has(u, "#")
    THEN Let(urlparse(u), LAMBDA p : Let([p EXCEPT !.fragment = <<>>], urlunparse))
    ELSE u

---------------------------------------------------------------------------
(* Helper functions of the crawler *)

normalize_url(u) ==
    Let(urldefrag(u), LAMBDA url1 :
    Let(urlparse(url1), LAMBDA parsed :
        (IF parsed.scheme # <<>> THEN parsed.scheme ELSE HTTP)
          \o SEP \o parsed.netloc
          \o (IF parsed.path # <<>> THEN parsed.path ELSE <<"/">>)))

get_domain(u) == Let(urlparse(u), LAMBDA parsed : Lower(parsed.netloc))

OutputDir == <<"o">>

FnameMax == 200

save_html(u) ==
    Let(urlparse(u), LAMBDA parsed :
    Let(parsed.netloc \o Replace(parsed.path, "/", "_"), LAMBDA safe :
    Let(IF safe = <<>> \/ EndsWith(safe, <<"_">>)
        THEN safe \o <<"i", "n", "d", "e", "x">> ELSE safe, LAMBDA safe_name :
    Let(safe_name \o <<".", "h", "t", "m", "l">>, LAMBDA fname :
        OutputDir \o <<"/">> \o Take(fname, FnameMax)))))

\* extract_links(base_url, html) for a page whose <a href> values, joined
\* with the base, are the absolute URLs hrefs
extract_links(hrefs) ==
    {normalize_url(full_url) :
        full_url \in {f \in hrefs : Let(urlparse(f), LAMBDA parsed :
                                        parsed.scheme \in {HTTP, HTTPS})}}

\* one line of crawl_log.csv, as written by csv.writer
Row(u, status, ctype, file) ==
    [url |-> u, status |-> status, content_type |-> ctype, saved_file |-> file]

Header ==
    Row(<<"u", "r", "l">>, "status_code",
        <<"c", "o", "n", "t", "e", "n", "t", "_", "t", "y", "p", "e">>,
        <<"s", "a", "v", "e", "d", "_", "f", "i", "l", "e">>)

\* log_to_csv: open(log_path, "a") and writerow
log_to_csv(f, u, status, ctype, file) == Append(f, Row(u, status, ctype, file))

TextHtml == <<"t", "e", "x", "t", "/", "h", "t", "m", "l">>

\* mutant of IsHtmlPage: the status code is not compared
IsHtmlPage_AnyStatus(r) == Contains(Lower(r.ctype), TextHtml)

\* status == 200 and "text/html" in ctype.lower()
IsHtmlPage(r) == r.status = 200 /\ Contains(Lower(r.ctype), TextHtml)



---------------------------------------------------------------------------
(* The inputs of a run *)

\* start URLs given on the command line
StartUrls == {<<"h", "t", "t", "p", ":", "/", "/", "x", ".", "y">>}

\* absolute link targets that pages may contain
Hrefs == {<<"h", "t", "t", "p", ":", "/", "/", "x", ".", "y", "/", "a">>,
          <<"h", "t", "t", "p", ":", "/", "/", "x", ".", "y", "/", "#", "f">>,
          <<"h", "t", "t", "p", ":", "/", "/", "Z", ".", "x", ".", "y">>,
          <<"h", "t", "t", "p", ":", "/", "/", "x", ".", "y", ".", "z", "/", "b">>,
          <<"f", "t", "p", ":", "/", "/", "x", ".", "y", "/">>}

\* the URLs a run can meet: the normal forms of the start URL and of the links
CrawlUrls == {normalize_url(u) : u \in StartUrls \cup Hrefs}

\* get_domain, save_html and extract_links computed once for each argument a
\* run can pass them
DomainOf == [u \in CrawlUrls |-> get_domain(u)]

SavedPathOf == [u \in CrawlUrls |-> save_html(u)]

LinksOf == [hrefs \in SUBSET Hrefs |-> extract_links(hrefs)]

\* mutant of Admissible: the host of the link is not compared
Admissible_AnySite(link, vis, start) ==
    /\ link \notin vis
    /\ DomainOf[start] = DomainOf[start]

\* mutant of Admissible: visited is not looked up
Admissible_NoVisitedCheck(link, vis, start) ==
    EndsWith(DomainOf[link], DomainOf[start])

\* link not in visited and get_domain(link).endswith(get_domain(start_url))
Admissible(link, vis, start) ==
    /\ link \notin vis
    /\ EndsWith(DomainOf[link], DomainOf[start])


\* mutant of AdmitAll: appendleft instead of append
RECURSIVE AdmitAll_Front(_, _, _, _, _)
AdmitAll_Front(q, order, lvl, vis, start) ==
    IF order = <<>> THEN q
    ELSE AdmitAll_Front(IF Admissible(Head(order), vis, start)
                        THEN << <<Head(order), lvl + 1>> >> \o q ELSE q,
                        Tail(order), lvl, vis, start)

\* the for loop of lines 200-202 over the links in iteration order
RECURSIVE AdmitAll(_, _, _, _, _)
AdmitAll(q, order, lvl, vis, start) ==
    IF order = <<>> THEN q
    ELSE AdmitAll(IF Admissible(Head(order), vis, start)
                  THEN Append(q, <<Head(order), lvl + 1>>) ELSE q,
                  Tail(order), lvl, vis, start)

\* what session.get may return: status code and Content-Type header
Responses ==
    {[status |-> 200, ctype |-> <<"T", "e", "x", "t", "/", "H", "T", "M", "L">>],
     [status |-> 200, ctype |-> <<"t", "e", "x", "t", "/", "p", "l", "a", "i", "n">>],
     [status |-> 404, ctype |-> TextHtml]}

\* str(status) as csv.writer writes it
StatusText == [n \in {200, 404} |-> IF n = 200 THEN "200" ELSE "404"]

\* subclasses of RequestException that session.get may raise
ErrorKinds == {"Timeout", "ConnectionError"}

\* f"error:{type(e).__name__}"
ErrorStatus == [k \in ErrorKinds |->
                  IF k = "Timeout" THEN "error:Timeout" ELSE "error:ConnectionError"]

\* a line left in crawl_log.csv by an earlier run
PriorRow == Row(<<"h", "t", "t", "p", ":", "/", "/", "x", ".", "y", "/">>, "200", TextHtml,
                save_html(<<"h", "t", "t", "p", ":", "/", "/", "x", ".", "y", "/">>))

\* the iteration orders of a set
Orders(S) == {o \in [1..Cardinality(S) -> S] : \A i, j \in 1..Cardinality(S) : o[i] = o[j] => i = j}

\* the lines appended to crawl_log.csv by this run
rows == SubSeq(logfile, log0 + 1, Len(logfile))

---------------------------------------------------------------------------
(* crawl() *)

NoResp == [status |-> 0, ctype |-> <<>>]

Init ==
    /\ pc = "start"
    /\ start_url \in StartUrls
    /\ depth \in 0..MaxDepth
    /\ respect_robots \in BOOLEAN
    /\ max_pages \in 1..MaxPages
    /\ log_exists \in BOOLEAN
    /\ logfile = IF log_exists THEN <<Header, PriorRow>> ELSE <<>>
    /\ log0 = Len(logfile)
    /\ visited = {}
    /\ queue = <<>>
    /\ processed = 0
    /\ pbar = 0
    /\ url = <<>>
    /\ level = 0
    /\ resp = NoResp
    /\ saved_file = <<>>
    /\ links = {}
    /\ outcome = "none"
    /\ gets = <<>>
    /\ saved = {}
    /\ sleeps = 0
    /\ levels = <<>>
    /\ admitted = {}
    /\ nin = <<>>
    /\ nout = <<>>
    /\ npc = "idle"

\* mutant of CrawlStart: the log is opened with mode "w" whether it exists
\* or not
CrawlStart_Truncates ==
    /\ pc = "start"
    /\ start_url' = normalize_url(start_url)
    /\ log_exists' = TRUE
    /\ logfile' = <<Header>>
    /\ log0' = Len(logfile')
    /\ visited' = {}
    /\ queue' = << <<start_url', 0>> >>
    /\ admitted' = { <<start_url', 0, <<>> >> }
    /\ processed' = 0
    /\ pbar' = 0
    /\ pc' = "loop"
    /\ UNCHANGED <<depth, respect_robots, max_pages, url, level, resp, saved_file,
                   outcome, gets, saved, sleeps, levels, links, normVars>>

\* lines 158-176: normalise the start URL, create the log with its header
\* when it does not exist, seed the queue
CrawlStart ==
    /\ pc = "start"
    /\ start_url' = normalize_url(start_url)
    /\ log_exists' = TRUE
    /\ logfile' = IF log_exists THEN logfile ELSE <<Header>>
    /\ log0' = Len(logfile')
    /\ visited' = {}
    /\ queue' = << <<start_url', 0>> >>
    /\ admitted' = { <<start_url', 0, <<>> >> }
    /\ processed' = 0
    /\ pbar' = 0
    /\ pc' = "loop"
    /\ UNCHANGED <<depth, respect_robots, max_pages, url, level, resp, saved_file,
                   outcome, gets, saved, sleeps, levels, links, normVars>>

\* mutant of LoopCond: the budget test is off by one
LoopCond_OffByOne == queue # <<>> /\ processed <= max_pages

\* line 177
LoopCond == queue # <<>> /\ processed < max_pages


\* mutant of Skip: the discarded entry is left in the queue
Skip_NoPop ==
    /\ pc = "loop"
    /\ LoopCond
    /\ url' = Head(queue)[1]
    /\ level' = Head(queue)[2]
    /\ queue' = queue
    /\ (url' \in visited \/ level' > depth)
    /\ pc' = "loop"
    /\ UNCHANGED <<start_url, depth, respect_robots, max_pages, log_exists, logfile,
                   log0, visited, processed, pbar, resp, saved_file, outcome, gets,
                   saved, sleeps, levels, admitted, links, normVars>>

\* mutant of Skip: targets at level = depth are discarded too
Skip_AtMaxDepth ==
    /\ pc = "loop"
    /\ LoopCond
    /\ url' = Head(queue)[1]
    /\ level' = Head(queue)[2]
    /\ queue' = Tail(queue)
    /\ (url' \in visited \/ level' >= depth)
    /\ pc' = "loop"
    /\ UNCHANGED <<start_url, depth, respect_robots, max_pages, log_exists, logfile,
                   log0, visited, processed, pbar, resp, saved_file, outcome, gets,
                   saved, sleeps, levels, admitted, links, normVars>>

\* mutant of Skip: the discarded entry is counted as a processed page
Skip_CountsBudget ==
    /\ pc = "loop"
    /\ LoopCond
    /\ url' = Head(queue)[1]
    /\ level' = Head(queue)[2]
    /\ queue' = Tail(queue)
    /\ (url' \in visited \/ level' > depth)
    /\ processed' = processed + 1
    /\ pc' = "loop"
    /\ UNCHANGED <<start_url, depth, respect_robots, max_pages, log_exists, logfile,
                   log0, visited, pbar, resp, saved_file, outcome, gets,
                   saved, sleeps, levels, admitted, links, normVars>>

\* lines 178-180 when the popped target is discarded
Skip ==
    /\ pc = "loop"
    /\ LoopCond
    /\ url' = Head(queue)[1]
    /\ level' = Head(queue)[2]
    /\ queue' = Tail(queue)
    /\ (url' \in visited \/ level' > depth)
    /\ pc' = "loop"
    /\ UNCHANGED <<start_url, depth, respect_robots, max_pages, log_exists, logfile,
                   log0, visited, processed, pbar, resp, saved_file, outcome, gets,
                   saved, sleeps, levels, admitted, links, normVars>>


\* mutant of Pop: the popped URL is not looked up in visited
Pop_NoVisitedCheck ==
    /\ pc = "loop"
    /\ LoopCond
    /\ url' = Head(queue)[1]
    /\ level' = Head(queue)[2]
    /\ queue' = Tail(queue)
    /\ ~(level' > depth)
    /\ outcome' = "none"
    /\ pc' = "robots"
    /\ UNCHANGED <<start_url, depth, respect_robots, max_pages, log_exists, logfile,
                   log0, visited, processed, pbar, resp, saved_file, gets,
                   saved, sleeps, levels, admitted, links, normVars>>

\* lines 178-180 when the popped target is kept
Pop ==
    /\ pc = "loop"
    /\ LoopCond
    /\ url' = Head(queue)[1]
    /\ level' = Head(queue)[2]
    /\ queue' = Tail(queue)
    /\ ~(url' \in visited \/ level' > depth)
    /\ outcome' = "none"
    /\ pc' = "robots"
    /\ UNCHANGED <<start_url, depth, respect_robots, max_pages, log_exists, logfile,
                   log0, visited, processed, pbar, resp, saved_file, gets,
                   saved, sleeps, levels, admitted, links, normVars>>

\* lines 177, 214-215: the loop condition fails
LoopExit ==
    /\ pc = "loop"
    /\ ~LoopCond
    /\ pc' = "done"
    /\ UNCHANGED <<start_url, depth, respect_robots, max_pages, log_exists, logfile,
                   log0, visited, queue, processed, pbar, url, level, resp,
                   saved_file, outcome, gets, saved, sleeps, levels, admitted,
                   links, normVars>>


\* mutant of RobotsBlocked: the blocked URL is not added to visited
RobotsBlocked_NotVisited ==
    /\ pc = "robots"
    /\ respect_robots
    /\ logfile' = log_to_csv(logfile, url, "robots_blocked", <<>>, <<>>)
    /\ levels' = Append(levels, level)
    /\ visited' = visited
    /\ pbar' = pbar + 1
    /\ outcome' = "blocked"
    /\ pc' = "loop"
    /\ UNCHANGED <<start_url, depth, respect_robots, max_pages, log_exists, log0,
                   queue, processed, url, level, resp, saved_file, gets, saved,
                   sleeps, admitted, links, normVars>>

\* lines 183-188: is_allowed answers False
RobotsBlocked ==
    /\ pc = "robots"
    /\ respect_robots
    /\ logfile' = log_to_csv(logfile, url, "robots_blocked", <<>>, <<>>)
    /\ levels' = Append(levels, level)
    /\ visited' = visited \cup {url}
    /\ pbar' = pbar + 1
    /\ outcome' = "blocked"
    /\ pc' = "loop"
    /\ UNCHANGED <<start_url, depth, respect_robots, max_pages, log_exists, log0,
                   queue, processed, url, level, resp, saved_file, gets, saved,
                   sleeps, admitted, links, normVars>>

\* line 183: respect_robots is off, or is_allowed answers True (also when
\* rp is None or can_fetch raises)
RobotsAllowed ==
    /\ pc = "robots"
    /\ pc' = "fetch"
    /\ UNCHANGED <<start_url, depth, respect_robots, max_pages, log_exists, logfile,
                   log0, visited, queue, processed, pbar, url, level, resp,
                   saved_file, outcome, gets, saved, sleeps, levels, admitted,
                   links, normVars>>

\* lines 191-196: session.get returns
FetchResponse ==
    /\ pc = "fetch"
    /\ \E r \in Responses :
         /\ resp' = r
         /\ pc' = IF IsHtmlPage(r) THEN "save" ELSE "log"
    /\ gets' = Append(gets, url)
    /\ saved_file' = <<>>
    /\ UNCHANGED <<start_url, depth, respect_robots, max_pages, log_exists, logfile,
                   log0, visited, queue, processed, pbar, url, level, outcome,
                   saved, sleeps, levels, admitted, links, normVars>>


\* mutant of FetchError: the except clause continues, skipping lines 209-212
FetchError_Continue ==
    /\ pc = "fetch"
    /\ \E k \in ErrorKinds :
         logfile' = log_to_csv(logfile, url, ErrorStatus[k], <<>>, <<>>)
    /\ levels' = Append(levels, level)
    /\ gets' = Append(gets, url)
    /\ outcome' = "error"
    /\ pc' = "loop"
    /\ UNCHANGED <<start_url, depth, respect_robots, max_pages, log_exists, log0,
                   visited, queue, processed, pbar, url, level, resp, saved_file,
                   saved, sleeps, admitted, links, normVars>>

\* lines 191, 205-207: session.get raises a RequestException
FetchError ==
    /\ pc = "fetch"
    /\ \E k \in ErrorKinds :
         logfile' = log_to_csv(logfile, url, ErrorStatus[k], <<>>, <<>>)
    /\ levels' = Append(levels, level)
    /\ gets' = Append(gets, url)
    /\ outcome' = "error"
    /\ pc' = "mark"
    /\ UNCHANGED <<start_url, depth, respect_robots, max_pages, log_exists, log0,
                   visited, queue, processed, pbar, url, level, resp, saved_file,
                   saved, sleeps, admitted, links, normVars>>


\* mutant of SaveHtml: links are extracted at level = depth too
SaveHtml_LinksAtMaxDepth ==
    /\ pc = "save"
    /\ saved_file' = SavedPathOf[url]
    /\ saved' = saved \cup {url}
    /\ pc' = IF level <= depth THEN "links" ELSE "log"
    /\ UNCHANGED <<start_url, depth, respect_robots, max_pages, log_exists, logfile,
                   log0, visited, queue, processed, pbar, url, level, resp,
                   outcome, gets, sleeps, levels, admitted, links, normVars>>

\* lines 197-198: save_html writes the body
SaveHtml ==
    /\ pc = "save"
    /\ saved_file' = SavedPathOf[url]
    /\ saved' = saved \cup {url}
    /\ pc' = IF level < depth THEN "links" ELSE "log"
    /\ UNCHANGED <<start_url, depth, respect_robots, max_pages, log_exists, logfile,
                   log0, visited, queue, processed, pbar, url, level, resp,
                   outcome, gets, sleeps, levels, admitted, links, normVars>>

\* mutant of SaveFails: the exception is handled like a RequestException
SaveFails_Absorbed ==
    /\ pc = "save"
    /\ logfile' = log_to_csv(logfile, url, "error:OSError", <<>>, <<>>)
    /\ levels' = Append(levels, level)
    /\ outcome' = "error"
    /\ pc' = "mark"
    /\ UNCHANGED <<start_url, depth, respect_robots, max_pages, log_exists, log0,
                   visited, queue, processed, pbar, url, level, resp, saved_file,
                   gets, saved, sleeps, admitted, links, normVars>>

\* line 197: open or write raises OSError, which is not a RequestException
\* and leaves crawl()
SaveFails ==
    /\ pc = "save"
    /\ pc' = "crashed"
    /\ UNCHANGED <<start_url, depth, respect_robots, max_pages, log_exists, logfile,
                   log0, visited, queue, processed, pbar, url, level, resp,
                   saved_file, outcome, gets, saved, sleeps, levels, admitted,
                   links, normVars>>

\* lines 199-202: the page holds at most MaxLinks links; the set links is
\* iterated in some order
AdmitLinks ==
    /\ pc = "links"
    /\ \E hrefs \in SUBSET Hrefs :
         /\ Cardinality(hrefs) <= MaxLinks
         /\ links' = LinksOf[hrefs]
    /\ \E order \in Orders(links') :
         queue' = AdmitAll(queue, order, level, visited, start_url)
    /\ admitted' = admitted \cup
                     {<<queue'[i][1], queue'[i][2], url>> : i \in (Len(queue) + 1)..Len(queue')}
    /\ pc' = "log"
    /\ UNCHANGED <<start_url, depth, respect_robots, max_pages, log_exists, logfile,
                   log0, visited, processed, pbar, url, level, resp, saved_file,
                   outcome, gets, saved, sleeps, levels, normVars>>

\* mutant of LogFetched: the line is written inside the if of line 196
LogFetched_InsideIf ==
    /\ pc = "log"
    /\ logfile' = IF IsHtmlPage(resp)
                  THEN log_to_csv(logfile, url, StatusText[resp.status], resp.ctype,
                                  saved_file)
                  ELSE logfile
    /\ levels' = IF IsHtmlPage(resp) THEN Append(levels, level) ELSE levels
    /\ outcome' = "fetched"
    /\ pc' = "mark"
    /\ UNCHANGED <<start_url, depth, respect_robots, max_pages, log_exists, log0,
                   visited, queue, processed, pbar, url, level, resp, saved_file,
                   gets, saved, sleeps, admitted, links, normVars>>

\* line 204
LogFetched ==
    /\ pc = "log"
    /\ logfile' = log_to_csv(logfile, url, StatusText[resp.status], resp.ctype,
                             saved_file)
    /\ levels' = Append(levels, level)
    /\ outcome' = "fetched"
    /\ pc' = "mark"
    /\ UNCHANGED <<start_url, depth, respect_robots, max_pages, log_exists, log0,
                   visited, queue, processed, pbar, url, level, resp, saved_file,
                   gets, saved, sleeps, admitted, links, normVars>>

\* mutant of Mark: line 209 is missing
Mark_NotVisited ==
    /\ pc = "mark"
    /\ visited' = visited
    /\ processed' = processed + 1
    /\ pbar' = pbar + 1
    /\ pc' = "sleep"
    /\ UNCHANGED <<start_url, depth, respect_robots, max_pages, log_exists, logfile,
                   log0, queue, url, level, resp, saved_file, outcome, gets,
                   saved, sleeps, levels, admitted, links, normVars>>

\* lines 209-211
Mark ==
    /\ pc = "mark"
    /\ visited' = visited \cup {url}
    /\ processed' = processed + 1
    /\ pbar' = pbar + 1
    /\ pc' = "sleep"
    /\ UNCHANGED <<start_url, depth, respect_robots, max_pages, log_exists, logfile,
                   log0, queue, url, level, resp, saved_file, outcome, gets,
                   saved, sleeps, levels, admitted, links, normVars>>

\* line 212
Sleep ==
    /\ pc = "sleep"
    /\ sleeps' = sleeps + 1
    /\ pc' = "loop"
    /\ UNCHANGED <<start_url, depth, respect_robots, max_pages, log_exists, logfile,
                   log0, visited, queue, processed, pbar, url, level, resp,
                   saved_file, outcome, gets, saved, levels, admitted, links, normVars>>

Next ==
    \/ CrawlStart
    \/ Skip
    \/ Pop
    \/ LoopExit
    \/ RobotsBlocked
    \/ RobotsAllowed
    \/ FetchResponse
    \/ FetchError
    \/ SaveHtml
    \/ SaveFails
    \/ AdmitLinks
    \/ LogFetched
    \/ Mark
    \/ Sleep

Spec == Init /\ [][Next]_vars

\* a run on an output directory that holds no log yet
FreshInit == Init /\ ~log_exists

\* the interpreter keeps running crawl() until it returns or raises
FairSpec == FreshInit /\ [][Next]_vars /\ WF_vars(Next)

---------------------------------------------------------------------------
(* Two successive runs on one output directory *)

\* the program is started again with the same options on the directory a
\* finished run has left: a new process, whose crawl() finds the log of the
\* run before.  Only the run that found the log empty of lines is followed
\* by another one.
Rerun ==
    /\ pc \in {"done", "crashed"}
    /\ log0 <= 1
    /\ pc' = "start"
    /\ start_url' \in StartUrls
    /\ log0' = Len(logfile)
    /\ visited' = {}
    /\ queue' = <<>>
    /\ processed' = 0
    /\ pbar' = 0
    /\ url' = <<>>
    /\ level' = 0
    /\ resp' = NoResp
    /\ saved_file' = <<>>
    /\ links' = {}
    /\ outcome' = "none"
    /\ gets' = <<>>
    /\ saved' = {}
    /\ sleeps' = 0
    /\ levels' = <<>>
    /\ admitted' = {}
    /\ UNCHANGED <<depth, respect_robots, max_pages, log_exists, logfile, normVars>>

\* runs with a page budget of at most two, the first on a directory that
\* holds no log
RerunInit == FreshInit /\ max_pages <= 2

RerunNext == Next \/ Rerun

RerunSpec == RerunInit /\ [][RerunNext]_vars

---------------------------------------------------------------------------
(* normalize_url applied to raw strings, and again to its own result *)

RawChars == {"a", ":", "/", "#", "?"}

RawUrls == UNION {[1..n -> RawChars] : n \in 0..MaxRawLen}

NormInit ==
    /\ npc = "run"
    /\ nin \in RawUrls
    /\ nout = <<>>
    /\ pc = "idle"
    /\ start_url = <<>>
    /\ depth = 0
    /\ respect_robots = FALSE
    /\ max_pages = 1
    /\ log_exists = FALSE
    /\ logfile = <<>>
    /\ log0 = 0
    /\ visited = {}
    /\ queue = <<>>
    /\ processed = 0
    /\ pbar = 0
    /\ url = <<>>
    /\ level = 0
    /\ resp = NoResp
    /\ saved_file = <<>>
    /\ links = {}
    /\ outcome = "none"
    /\ gets = <<>>
    /\ saved = {}
    /\ sleeps = 0
    /\ levels = <<>>
    /\ admitted = {}

Normalize ==
    /\ npc = "run"
    /\ Len(nout) < 2
    /\ nout' = Append(nout, normalize_url(IF nout = <<>> THEN nin ELSE nout[Len(nout)]))
    /\ UNCHANGED <<nin, npc, crawlVars>>

NormNext == Normalize

NormSpec == NormInit /\ [][NormNext]_vars

---------------------------------------------------------------------------
(* Properties of crawl() *)

Running == pc \notin {"start", "idle"}

RowsOf(u) == {i \in 1..Len(rows) : rows[i].url = u}

GetsOf(u) == {i \in 1..Len(gets) : gets[i] = u}

LastRow == rows[Len(rows)]

InScope(u) == EndsWith(DomainOf[u], DomainOf[start_url])

\* C1: within one run no URL is written to the audit log twice and no URL is
\* requested twice; a queue entry whose URL has a line already is discarded
\* when it is popped (the step leaves the log and the requests as they were).
C1_NoUrlLoggedTwice ==
    /\ [](\A i, j \in 1..Len(rows) : rows[i].url = rows[j].url => i = j)
    /\ [](\A i, j \in 1..Len(gets) : gets[i] = gets[j] => i = j)
    /\ [][(pc = "loop" /\ LoopCond /\ RowsOf(Head(queue)[1]) # {})
            => (pc' = "loop" /\ logfile' = logfile /\ gets' = gets)]_vars

\* C1 witness: an entry for a URL that has a line already was popped and
\* discarded (the target popped last is logged, but not by the last line)
C1_Witness ==
    /\ pc = "loop"
    /\ Len(rows) >= 2
    /\ RowsOf(url) # {}
    /\ LastRow.url # url

\* C2: the lines appended by the run never outnumber the page budget
C2_RowsWithinBudget == Running => Len(rows) <= max_pages

\* the order in which the queue is served: a step either leaves the queue,
\* removes its head, or adds entries at its tail
FifoStep ==
    \/ queue' = queue
    \/ queue # <<>> /\ queue' = Tail(queue)
    \/ Len(queue') > Len(queue) /\ SubSeq(queue', 1, Len(queue)) = queue

\* C3: the queue is first-in first-out, the levels of the logged targets
\* never decrease along the log, and a target admitted at level d+1 from a
\* source at level d is logged only after the source's line is written.
C3_BreadthFirst ==
    /\ [][FifoStep]_vars
    /\ [](\A i, j \in 1..Len(rows) : i < j => levels[i] <= levels[j])
    /\ [](\A a \in admitted : \A j \in 1..Len(rows) :
            (a[2] >= 1 /\ rows[j].url = a[1] /\ levels[j] = a[2])
              => \E i \in 1..(j-1) : rows[i].url = a[3] /\ levels[i] = a[2] - 1)

\* C3 witness: targets of three successive levels are in the log
C3_Witness ==
    /\ Len(rows) >= 3
    /\ \E i, j, k \in 1..Len(rows) : levels[i] = 0 /\ levels[j] = 1 /\ levels[k] = 2

\* C4: every URL that is queued, requested or logged has a host that ends
\* with the host of the start URL
C4_DomainScoped ==
    Running =>
        \A u \in {queue[i][1] : i \in 1..Len(queue)}
                 \cup {a[1] : a \in admitted}
                 \cup {gets[i] : i \in 1..Len(gets)}
                 \cup {rows[i].url : i \in 1..Len(rows)} : InScope(u)

\* C4 witness: the links of a page held a URL of another site, and the
\* admission loop has run over them
C4_Witness ==
    /\ pc = "log"
    /\ IsHtmlPage(resp)
    /\ level < depth
    /\ \E l \in links : ~InScope(l)
    /\ \E l \in links : InScope(l) /\ l \notin visited /\ l # url

\* C5: a target at level = depth is not discarded; it is requested, saved
\* when the response is a 200 HTML page, and logged; the queue grows only
\* in the admission loop of a target with level < depth.
C5_DepthBoundary ==
    /\ [][(pc = "loop" /\ LoopCond /\ Head(queue)[2] = depth
             /\ Head(queue)[1] \notin visited) => pc' = "robots"]_vars
    /\ [][(Running /\ Len(queue') > Len(queue)) => (pc = "links" /\ level < depth)]_vars
    /\ [](pc = "links" => level < depth)
    /\ []((pc = "mark" /\ level = depth /\ outcome = "fetched")
            => /\ gets[Len(gets)] = url
               /\ LastRow.url = url
               /\ LastRow.status = StatusText[resp.status]
               /\ IsHtmlPage(resp) =>
                    (url \in saved /\ LastRow.saved_file = SavedPathOf[url]))

\* C5 witness: a 200 HTML page at level = depth >= 1 has been saved and
\* logged, and the queue is as it was when the page was popped
C5_Witness ==
    /\ pc = "mark"
    /\ outcome = "fetched"
    /\ level = depth
    /\ depth >= 1
    /\ IsHtmlPage(resp)
    /\ url \in saved

BlockedRows == {i \in 1..Len(rows) : rows[i].status = "robots_blocked"}

\* C6: a target the oracle rejects gets exactly one line (url,
\* robots_blocked, "", ""), the step neither requests, saves nor queues
\* anything and returns to the loop head, and the URL is never requested or
\* saved in the rest of the run.
C6_BlockedNeverFetched ==
    /\ [][(pc = "robots" /\ outcome' = "blocked")
            => /\ logfile' = Append(logfile, Row(url, "robots_blocked", <<>>, <<>>))
               /\ queue' = queue
               /\ gets' = gets
               /\ saved' = saved
               /\ pc' = "loop"]_vars
    /\ [](\A i \in BlockedRows :
            /\ RowsOf(rows[i].url) = {i}
            /\ GetsOf(rows[i].url) = {}
            /\ rows[i].url \notin saved)

\* C6 witness: a target was blocked, and a later target was requested
C6_Witness ==
    \E i \in BlockedRows : \E j \in 1..Len(rows) :
        j > i /\ rows[j].status = "200" /\ GetsOf(rows[i].url) = {}

ErrorRows == {i \in 1..Len(rows) : \E k \in ErrorKinds : rows[i].status = ErrorStatus[k]}

\* C7: when the request raises, the target gets exactly one line (url,
\* error:<kind>, "", ""), is marked visited, is requested once only, adds
\* nothing to the queue and saves nothing, and the run goes on to the loop
\* head; it does not end the run.
C7_ErrorAbsorbed ==
    /\ [][(pc = "fetch" /\ outcome' = "error")
            => /\ \E k \in ErrorKinds :
                    logfile' = Append(logfile, Row(url, ErrorStatus[k], <<>>, <<>>))
               /\ gets' = Append(gets, url)
               /\ queue' = queue
               /\ saved' = saved
               /\ pc' = "mark"]_vars
    /\ [][(outcome = "error" /\ pc = "mark")
            => (pc' = "sleep" /\ url \in visited' /\ queue' = queue)]_vars
    /\ [][(outcome = "error" /\ pc = "sleep") => (pc' = "loop" /\ queue' = queue)]_vars
    /\ [](pc = "crashed" => outcome # "error")
    /\ [](\A i \in ErrorRows :
            /\ RowsOf(rows[i].url) = {i}
            /\ Cardinality(GetsOf(rows[i].url)) = 1
            /\ rows[i].url \notin saved
            /\ rows[i].content_type = <<>>
            /\ rows[i].saved_file = <<>>)

\* C7 witness: a request failed, and a later target was popped and logged
C7_Witness ==
    \E i \in ErrorRows : i < Len(rows) /\ rows[i].url \in visited

\* the canonical form: no fragment, an explicit scheme, a non-empty path
Canonical(u) ==
    /\ ~Has(u, "#")
    /\ urlparse(u).scheme # <<>>
    /\ urlparse(u).path # <<>>

\* C8: normalize_url applied to its own result returns that result, and the
\* result of normalize_url is canonical
C8_NormalizeIdempotent ==
    /\ Len(nout) >= 1 => Canonical(nout[1])
    /\ Len(nout) = 2 => nout[2] = nout[1]

\* C9 as stated: every run comes to an end in a state where the queue is
\* empty or processed has reached max_pages
C9_EndsByLoopCondition ==
    <>(pc \in {"done", "crashed"} /\ (queue = <<>> \/ processed >= max_pages))

\* C9 amended: every run ends; it leaves the loop with the queue empty or
\* processed at max_pages, or it is ended by save_html raising
C9_Terminates ==
    <>(\/ pc = "done" /\ (queue = <<>> \/ processed >= max_pages)
       \/ pc = "crashed" /\ IsHtmlPage(resp) /\ url \notin saved)

\* C9 witness: a run over a link graph with a cycle back to the start URL
\* has left the loop
C9_Witness ==
    /\ pc = "done"
    /\ \E a \in admitted : a[1] = start_url /\ a[2] >= 1
    /\ Len(rows) >= 2

\* C10: when the loop ends with the queue empty and budget left, every URL
\* ever put in the queue has exactly one line, every line is for such a URL,
\* and no URL of another site has a line
C10_AllAdmittedLogged ==
    (pc = "done" /\ queue = <<>> /\ processed < max_pages) =>
        /\ \A a \in admitted : Cardinality(RowsOf(a[1])) = 1
        /\ \A i \in 1..Len(rows) : \E a \in admitted : a[1] = rows[i].url
        /\ \A l \in CrawlUrls : ~InScope(l) => RowsOf(l) = {}

\* C10 witness: depth 1, the start page linked to a URL of the same site
\* and to one of another site, the queue ran empty with budget left
C10_Witness ==
    /\ pc = "done"
    /\ queue = <<>>
    /\ processed < max_pages
    /\ depth = 1
    /\ \E l \in links : InScope(l) /\ l # start_url /\ Cardinality(RowsOf(l)) = 1
    /\ \E l \in links : ~InScope(l)

\* C11: every target that was popped and kept, a blocked one included, is
\* followed by one time.sleep(delay) before the next pop: whenever the loop
\* condition is evaluated, as many sleeps have been taken as lines written
C11_SleepAfterEveryTarget == pc \in {"loop", "done"} => sleeps = Len(rows)

\* C12: a target that was popped and kept is in visited while the oracle is
\* asked and while it is requested, saved and its links admitted, and no
\* page admits a link to itself
C12_VisitedAtDequeue ==
    /\ pc \in {"robots", "fetch", "save", "links", "log", "mark"} => url \in visited
    /\ \A a \in admitted : a[1] # a[3]

\* the lines written by the fetch step (lines 204 and 207)
FetchRows == {i \in 1..Len(rows) : rows[i].status # "robots_blocked"}

\* C13 as stated: whenever no fetch step is under way, every session.get of
\* the run has exactly one line, written by its fetch step
C13_OneRowPerFetch ==
    pc \in {"loop", "robots", "mark", "sleep", "done", "crashed"} =>
        /\ Cardinality(FetchRows) = Len(gets)
        /\ \A i \in 1..Len(gets) : Cardinality(RowsOf(gets[i])) = 1

\* C13 amended: a fetch step that save_html does not end by raising writes
\* exactly one line for its target, as its last act before the target is
\* marked, on the response path and on the RequestException path; the
\* step that save_html ends writes none
C13_OneRowPerCompletedFetch ==
    /\ [](pc \in {"loop", "robots", "mark", "sleep", "done"} =>
            /\ Cardinality(FetchRows) = Len(gets)
            /\ \A i \in 1..Len(gets) : Cardinality(RowsOf(gets[i])) = 1)
    /\ [](pc \in {"save", "links", "log", "crashed"} =>
            /\ Cardinality(FetchRows) = Len(gets) - 1
            /\ gets[Len(gets)] = url
            /\ RowsOf(url) = {})
    /\ [][(pc \in {"fetch", "log"} /\ pc' = "mark")
            => /\ Len(logfile') = Len(logfile) + 1
               /\ SubSeq(logfile', 1, Len(logfile)) = logfile
               /\ logfile'[Len(logfile')].url = url
               /\ gets'[Len(gets')] = url]_vars
    /\ [][(pc \in {"fetch", "save", "links"} /\ pc' # "mark") => logfile' = logfile]_vars

\* C13 witness: a request has raised and its line is written, after a
\* request that was answered and logged
C13_Witness ==
    /\ pc = "mark"
    /\ outcome = "error"
    /\ Len(gets) >= 2
    /\ \E i \in FetchRows : rows[i].status \in {"200", "404"}

\* a response with status 200 whose Content-Type, lower-cased, contains
\* text/html
Ok200Html(r) ==
    /\ r.status = 200
    /\ \E i \in 0..(Len(r.ctype) - 9) :
           [k \in 1..9 |-> LowerChar(r.ctype[i + k])] = TextHtml

\* C14: a body is saved and links are admitted only for a response with
\* status 200 and a Content-Type containing text/html in any letter case;
\* for every other response the line carries the status and the
\* Content-Type with an empty saved_file, nothing is saved and the queue
\* is left as it was
C14_OnlyHtml200Saved ==
    /\ [](pc \in {"save", "links"} => Ok200Html(resp))
    /\ [][(Running /\ (saved' # saved \/ Len(queue') > Len(queue)))
            => Ok200Html(resp)]_vars
    /\ [][(pc = "fetch" /\ pc' # "mark" /\ ~Ok200Html(resp'))
            => (pc' = "log" /\ saved_file' = <<>> /\ queue' = queue /\ saved' = saved)]_vars
    /\ [][(pc = "log" /\ ~Ok200Html(resp))
            => /\ logfile' = Append(logfile, Row(url, StatusText[resp.status],
                                                 resp.ctype, <<>>))
               /\ queue' = queue
               /\ saved' = saved
               /\ pc' = "mark"]_vars
    /\ []((pc = "mark" /\ outcome = "fetched" /\ ~Ok200Html(resp))
            => (url \notin saved /\ LastRow.saved_file = <<>>))

\* C14 witness: a 404 text/html response was logged with an empty
\* saved_file after a 200 Text/HTML response was saved
C14_Witness ==
    /\ pc = "mark"
    /\ outcome = "fetched"
    /\ resp.status = 404
    /\ LastRow.saved_file = <<>>
    /\ \E i \in 1..Len(rows) : rows[i].status = "200" /\ rows[i].saved_file # <<>>
                                  /\ rows[i].content_type # TextHtml

\* the entry at the head of the queue is one that line 179 discards
HeadDiscarded ==
    /\ pc = "loop"
    /\ LoopCond
    /\ (Head(queue)[1] \in visited \/ Head(queue)[2] > depth)

\* C15: popping an entry whose URL is in visited or whose level exceeds
\* depth only removes that entry: no line is written, no request made,
\* nothing saved, processed and the progress bar keep their values, no sleep
\* is taken, visited and the other queue entries stay as they are, and the
\* run is back at the loop condition
C15_SkipIsPure ==
    [][HeadDiscarded =>
         /\ queue' = Tail(queue)
         /\ logfile' = logfile
         /\ gets' = gets
         /\ saved' = saved
         /\ processed' = processed
         /\ pbar' = pbar
         /\ sleeps' = sleeps
         /\ visited' = visited
         /\ admitted' = admitted
         /\ pc' = "loop"]_vars

\* C15 witness: an entry for a visited URL was popped and discarded while
\* other entries were waiting behind it
C15_Witness ==
    /\ pc = "loop"
    /\ url \in visited
    /\ Len(rows) >= 1
    /\ LastRow.url # url
    /\ queue # <<>>
    /\ sleeps = processed

\* C16: when save_html raises, the run ends there: the exception is not
\* logged as an error line, the target is not marked, and no later step
\* pops, requests or logs anything
C16_SaveFailureEndsRun ==
    /\ [][(pc = "save" /\ saved' = saved) => (pc' = "crashed" /\ logfile' = logfile)]_vars
    /\ [][pc = "crashed" =>
            (pc' = "crashed" /\ queue' = queue /\ gets' = gets /\ logfile' = logfile)]_vars
    /\ [](pc = "crashed" =>
            /\ url \notin visited
            /\ RowsOf(url) = {}
            /\ gets[Len(gets)] = url
            /\ processed = Len(gets) - 1)

\* C16 witness: save_html raised on a later page while entries were still
\* queued and budget was left
C16_Witness ==
    /\ pc = "crashed"
    /\ queue # <<>>
    /\ processed >= 1
    /\ processed + 1 < max_pages

NotBlocked(r) == r.status # "robots_blocked"

\* the URLs of the lines the fetch step wrote in this run, in file order
FetchedUrls ==
    [i \in 1..Len(SelectSeq(rows, NotBlocked)) |-> SelectSeq(rows, NotBlocked)[i].url]

\* C17: every step leaves the lines of crawl_log.csv as they are or adds one
\* line at the end; a line added by the loop is for the target being
\* processed, and the requested targets appear in the log in the order they
\* were requested; the header line is the first line of an existing log and
\* occurs nowhere else, also after a second run on the same directory
C17_AppendOnlyHeaderOnce ==
    /\ [][/\ Len(logfile') \in {Len(logfile), Len(logfile) + 1}
          /\ SubSeq(logfile', 1, Len(logfile)) = logfile]_vars
    /\ [][(Running /\ logfile' # logfile) => logfile'[Len(logfile')].url = url]_vars
    /\ [][(pc = "start" /\ logfile' # logfile) => (~log_exists /\ logfile' = <<Header>>)]_vars
    /\ [](pc \in {"loop", "done"} => FetchedUrls = gets)
    /\ [](\A i \in 1..Len(logfile) : logfile[i] = Header => i = 1)
    /\ [](log_exists => (logfile # <<>> /\ logfile[1] = Header))

\* C17 witness: a second run has added a line behind the lines of the run
\* that created the log
C17_Witness ==
    /\ pc = "mark"
    /\ log0 >= 3
    /\ Len(rows) >= 1
    /\ logfile[1] = Header
    /\ LastRow.url = url

\* C18: an entry is appended to the queue only by the admission loop of a
\* target with level < depth, with level + 1 and a URL that is not in
\* visited at that moment; so every queue entry has a level in 0..depth
\* and line 179 never discards an entry for its level
C18_AdmittedDepthBounded ==
    /\ [][(Running /\ Len(queue') > Len(queue))
            => /\ pc = "links"
               /\ level < depth
               /\ \A i \in (Len(queue) + 1)..Len(queue') :
                     /\ queue'[i][2] = level + 1
                     /\ queue'[i][1] \notin visited
                     /\ queue'[i][1] \in links']_vars
    /\ [](Running => \A i \in 1..Len(queue) : queue[i][2] \in 0..depth)
    /\ [](\A a \in admitted : a[2] \in 0..depth)
    /\ []((pc = "loop" /\ LoopCond) => ~(Head(queue)[2] > depth))
    /\ [][(pc = "loop" /\ pc' = "loop" /\ queue' # queue) => Head(queue)[1] \in visited]_vars

\* C18 witness: two entries for the same URL, not yet visited, wait in the
\* queue at the maximum depth
C18_Witness ==
    /\ depth >= 1
    /\ \E i, j \in 1..Len(queue) :
          /\ i < j
          /\ queue[i][1] = queue[j][1]
          /\ queue[i][1] \notin visited
          /\ queue[i][2] = depth

\* the URLs that have a line written by this run
LoggedUrls == {rows[i].url : i \in 1..Len(rows)}

\* C19: whenever the loop condition is evaluated, visited is exactly the set
\* of the URLs this run has written a line for; visited never loses a
\* member, and at no time holds a URL without a line
C19_VisitedIsLogged ==
    /\ [](pc \in {"loop", "done", "crashed"} => visited = LoggedUrls)
    /\ [](Running => visited \subseteq LoggedUrls)
    /\ [][visited \subseteq visited']_vars

\* C19 witness: at the loop condition visited holds a blocked, an errored
\* and a fetched URL
C19_Witness ==
    /\ pc = "loop"
    /\ Cardinality(visited) >= 3
    /\ BlockedRows # {}
    /\ ErrorRows # {}
    /\ \E i \in 1..Len(rows) : rows[i].status = "200"

\* C20 as stated, read between the iterations and at the end of the run:
\* processed is at most max_pages and is the number of session.get calls
C20_ProcessedEqualsGets ==
    pc \in {"loop", "done", "crashed"} =>
        (processed <= max_pages /\ processed = Len(gets))

\* C20 amended: processed never exceeds max_pages, nor does the number of
\* session.get calls; processed is that number whenever the loop condition
\* is evaluated and when the loop is left, and one less while the requested
\* target is handled and after save_html has ended the run
C20_GetsWithinBudget ==
    /\ Running => (processed <= max_pages /\ Len(gets) <= max_pages)
    /\ pc \in {"loop", "robots", "fetch", "sleep", "done"} => processed = Len(gets)
    /\ pc \in {"save", "links", "log", "mark", "crashed"} => Len(gets) = processed + 1

\* C20 witness: the loop was left with the budget used up, entries still
\* queued, and a blocked target logged
C20_Witness ==
    /\ pc = "done"
    /\ max_pages >= 2
    /\ processed = max_pages
    /\ Len(gets) = max_pages
    /\ queue # <<>>
    /\ BlockedRows # {}

====
